---- MODULE Spec2Model ----
(***************************************************************************)
(* Model of the Bookly support agent: AgentController.process_message and  *)
(* its two provider loops (backend/agent/controller.py), the tool registry *)
(* (backend/agent/tools.py) and the part of the WebSocket endpoint that    *)
(* drives one message (backend/api/websocket.py).                          *)
(*                                                                         *)
(* One loop iteration of a provider path (provider call, streaming of its  *)
(* events, execution of the requested tools, history appends) is one       *)
(* action.  A message of a history is kept by its role, its kind, the      *)
(* number of the user message it carries and the ids of the tool calls or  *)
(* tool results in it; free text is not kept.                              *)
(***************************************************************************)
EXTENDS Integers, Sequences, FiniteSets, TLC

\* ---------------------------------------------------------------- numbers
max_turns == 10
HistoryWindow == 20

\* Bounds of the exploration.
MaxMsgs == 2
MaxToolCalls == 2

VARIABLES
    anthropic_client,      \* self.anthropic_client is not None
    openai_client,         \* self.openai_client is not None
    db,                    \* self.db is not None
    active_provider,       \* self.active_provider
    conversation_history,  \* self.conversation_history
    openai_messages,       \* self.openai_messages
    turn_count,            \* self.turn_count (messages since the last reset)
    via_ws,                \* the agent is driven by websocket_endpoint
    pc,                    \* position of the current process_message invocation
    loop_turn,             \* the local turn_count of the running provider loop
    batch,                 \* tool calls in each tool-requesting response of this agent's model
    chunks,                \* chunks yielded by the current invocation
    sent,                  \* events sent to the WebSocket for the current message
    anthropic_calls,       \* messages.stream calls of the current invocation
    openai_calls,          \* chat.completions.create calls of the current invocation
    failed,                \* providers that raised an API error in this invocation
    raised,                \* the invocation ended by an exception leaving process_message
    reissues,              \* times the user text was handed to the fallback after a failure
    exec_calls,            \* execute_tool calls of the current invocation
    start_provider,        \* active_provider when the invocation began
    switches,              \* changes of active_provider in the current invocation
    last_response,         \* what the latest provider call of the invocation produced
    user_email,            \* self.user_email
    current_order_id,      \* self.current_order_id
    tool_call,             \* a tool call on its way through context enrichment
    exec,                  \* a call of execute_tool and what came of it
    user_message,          \* the text handed to process_message, as its characters
    order_row,             \* the row of one order in the orders table
    return_log,            \* outcomes of the initiate_return calls made for that order
    manager,               \* the ConnectionManager's entries for one session id
    handlers,              \* the websocket_endpoint coroutines serving that session id
    executions,            \* the execute_tool calls of the current invocation and what came of each
    tools_used,            \* self.tools_used
    sessions               \* two sessions side by side, where two are compared or compete

vars == << anthropic_client, openai_client, db, active_provider,
           conversation_history, openai_messages, turn_count, via_ws, pc,
           loop_turn, batch, chunks, sent, anthropic_calls, openai_calls,
           failed, raised, reissues, exec_calls, start_provider, switches,
           last_response, user_email, current_order_id, tool_call, exec,
           user_message, order_row, return_log,
             manager, handlers, executions, tools_used, sessions >>

\* Variables no step of process_message changes.
static == << anthropic_client, openai_client, via_ws, batch,
             user_email, tool_call, exec, user_message,
             order_row, return_log, manager, handlers, sessions >>

\* Variables the provider loops leave alone where the tool calls are not
\* followed one by one.
config == << static, current_order_id, executions, tools_used >>

\* ------------------------------------------------------------- messages
NoIds == << >>

UserText(m) ==
    [role |-> "user", kind |-> "text", text |-> m, ids |-> NoIds, results |-> << >>]

AssistantMsg(ids) ==
    [role |-> "assistant", kind |-> "content", text |-> 0, ids |-> ids, results |-> << >>]

\* Anthropic: one user-role message holding every tool_result block of a turn.
ToolResultsMsg(ids, rs) ==
    [role |-> "user", kind |-> "tool_result", text |-> 0, ids |-> ids, results |-> rs]

\* OpenAI: one role="tool" message per tool call.
ToolMsg(id, r) ==
    [role |-> "tool", kind |-> "tool_result", text |-> 0, ids |-> << id >>, results |-> << r >>]

SystemMsg(m) ==
    [role |-> "system", kind |-> "text", text |-> m, ids |-> NoIds, results |-> << >>]

\* Ids of the n tool calls of the response provider p gives in loop turn t of
\* message m: a provider never issues an id twice.
CallIds(p, m, t, n) == [i \in 1..n |-> << p, m, t, i >>]

\* ---------------------------------------------------------------- chunks
Chunk(type, id, content) == [type |-> type, id |-> id, content |-> content]

ContentChunk(p, m, t) == Chunk("content", << p, m, t, 0 >>, "text")
ToolUseChunk(id) == Chunk("tool_use", id, "")
ToolResultChunk(id) == Chunk("tool_result", id, "")
ErrorChunk(m, what) == Chunk("error", << "", m, 0, 0 >>, what)

RECURSIVE Flatten(_)
Flatten(ss) == IF ss = << >> THEN << >> ELSE Head(ss) \o Flatten(Tail(ss))


\* Variant of ForwardChunk that also passes an error chunk on as an error event.
ForwardChunkWithError(c) ==
    IF c.type = "content" THEN << "stream" >>
    ELSE IF c.type = "tool_use" THEN << "tool_use" >>
    ELSE IF c.type = "tool_result" THEN << "tool_result" >>
    ELSE IF c.type = "error" THEN << "error" >>
    ELSE << >>

\* websocket_endpoint: what is sent for one chunk of process_message.
ForwardChunk(c) ==
    IF c.type = "content" THEN << "stream" >>
    ELSE IF c.type = "tool_use" THEN << "tool_use" >>
    ELSE IF c.type = "tool_result" THEN << "tool_result" >>
    ELSE << >>

Forward(cs) == IF via_ws THEN Flatten([i \in 1..Len(cs) |-> ForwardChunk(cs[i])]) ELSE << >>

\* websocket_endpoint: the events after the chunk loop when it ended normally.
CompleteEvents == << "message_complete", "typing_off" >>

\* websocket_endpoint: the events of the except/finally when an exception left
\* process_message.
FailureEvents == << "error", "typing_off" >>

\* ------------------------------------------------------------- trimming
TrimHistory(h) ==
    IF Len(h) > HistoryWindow
    THEN SubSeq(h, Len(h) - HistoryWindow + 1, Len(h))
    ELSE h

TrimOpenAI(ms) ==
    IF Len(ms) > HistoryWindow + 1
    THEN << ms[1] >> \o SubSeq(ms, Len(ms) - HistoryWindow + 1, Len(ms))
    ELSE ms

\* process_message, fallback handler: drop the last message when its role is user.
PopLastUser(h) ==
    IF Len(h) > 0 /\ h[Len(h)].role = "user"
    THEN SubSeq(h, 1, Len(h) - 1)
    ELSE h

\* Variant of BeginOpenAI that puts the new system prompt in front of the
\* messages kept so far instead of replacing the old one.
BeginOpenAIAccumulates(ms, m) ==
    << SystemMsg(m) >> \o ms \o << UserText(m) >>

\* _process_with_openai: fresh system prompt at index 0, then the user text.
BeginOpenAI(ms, m) ==
    ( IF ms = << >> THEN << SystemMsg(m) >> ELSE [ms EXCEPT ![1] = SystemMsg(m)] )
    \o << UserText(m) >>

\* Kinds of provider API errors seen by _should_fallback_to_openai.
APIErrors == {"billing", "status", "other"}

ShouldFallbackToOpenAI(e) ==
    IF e = "billing" THEN TRUE
    ELSE IF e = "status" THEN TRUE
    ELSE TRUE

\* Result appended for one tool call of a turn.
ToolOutcome(hasDb) == IF hasDb THEN "executed" ELSE "db_unavailable"


\* ------------------------------------------------------ tool arguments
\* Values of a tool argument: the key is missing, JSON null, the empty string,
\* or a non-empty string.
Absent == "<absent>"
Null == "<null>"

Falsy(v) == v \in {Absent, Null, ""}

ToolNames == {"get_order_status", "search_orders", "get_customer_info",
              "initiate_return", "get_policy_info", "get_recommendations",
              "search_books", "create_support_ticket"}

ArgKeys == {"order_id", "email", "reason"}

EmptyArgs == [k \in ArgKeys |-> Absent]

\* What the model sent as the arguments of a tool call: a JSON object, JSON
\* that is no object, or (OpenAI only) text that is no JSON.
RawDict(args) == [shape |-> "dict", args |-> args]
RawNotDict == [shape |-> "not_dict", args |-> EmptyArgs]
RawBadJson == [shape |-> "bad_json", args |-> EmptyArgs]

NoToolCall == [status |-> "idle", path |-> "", name |-> "", raw |-> RawDict(EmptyArgs),
               input |-> EmptyArgs]

\* _inject_order_context
tools_that_need_order == {"get_order_status", "initiate_return"}

InjectOrderContext(tool_name, tool_input, order) ==
    IF tool_name \in tools_that_need_order
       /\ Falsy(tool_input["order_id"]) /\ ~Falsy(order)
    THEN [tool_input EXCEPT !["order_id"] = order]
    ELSE tool_input

tools_that_need_email == {"search_orders", "get_customer_info", "initiate_return",
                          "create_support_ticket", "get_recommendations"}

\* Variant of InjectEmail that fills in the session's email whenever it is known.
InjectEmailAlways(tool_name, tool_input, email) ==
    IF ~Falsy(email) /\ tool_name \in tools_that_need_email \cup {"get_order_status"}
    THEN [tool_input EXCEPT !["email"] = email]
    ELSE tool_input

\* The email injection of both provider loops.
InjectEmail(tool_name, tool_input, email) ==
    IF ~Falsy(email) /\ tool_name \in tools_that_need_email
    THEN IF Falsy(tool_input["email"])
         THEN [tool_input EXCEPT !["email"] = email]
         ELSE tool_input
    ELSE IF ~Falsy(email) /\ tool_name = "get_order_status" /\ Falsy(tool_input["email"])
         THEN [tool_input EXCEPT !["email"] = email]
         ELSE tool_input

\* _process_with_anthropic: dict(tool_use.input) if it is a dict, else {}.
AnthropicInput(raw) == IF raw.shape = "dict" THEN raw.args ELSE EmptyArgs

\* _process_with_openai: json.loads, {} on a JSONDecodeError.  JSON that is no
\* object is kept as it is, and .get on it raises.
OpenAIInputIsDict(raw) == raw.shape # "not_dict"
OpenAIInput(raw) == IF raw.shape = "dict" THEN raw.args ELSE EmptyArgs

\* ---------------------------------------------------------- execute_tool
\* The database as a tool handler sees it: whether a database call raises,
\* how many rows the order query returns, whether the customer row is found,
\* whether the customer's email equals the one given, and the state of the order.
DbViews ==
    [fault : BOOLEAN, rows : 0..2, customer : BOOLEAN, email_matches : BOOLEAN,
     order : {"returnable", "return_requested", "not_delivered", "too_old"}]

\* Arguments of execute_tool: order_id and email, whether the other required
\* arguments of the tool are given, and the priority of a support ticket.
Priorities == {Absent, "high", "bogus"}
ValidPriorities == {"low", "medium", "high", "urgent"}

Payload == "payload"
ErrorPayload == "error_payload"
Raised == "raised"

GetOrderStatus(a, d) ==
    IF Falsy(a.order_id) /\ Falsy(a.email) THEN ErrorPayload
    ELSE IF d.fault THEN Raised
    ELSE IF d.rows > 1 THEN Raised
    ELSE IF d.rows = 0 THEN ErrorPayload
    ELSE IF ~Falsy(a.email) /\ d.customer /\ ~d.email_matches THEN ErrorPayload
    ELSE Payload

SearchOrders(a, d) ==
    IF Falsy(a.email) THEN ErrorPayload
    ELSE IF d.fault THEN Raised
    ELSE IF ~d.customer THEN ErrorPayload
    ELSE Payload

GetCustomerInfo(a, d) ==
    IF Falsy(a.email) THEN ErrorPayload
    ELSE IF d.fault THEN Raised
    ELSE IF ~d.customer THEN ErrorPayload
    ELSE Payload

InitiateReturn(a, d) ==
    IF Falsy(a.order_id) \/ ~a.others \/ Falsy(a.email) THEN ErrorPayload
    ELSE IF d.fault THEN Raised
    ELSE IF d.rows = 0 THEN ErrorPayload
    ELSE IF ~d.customer THEN Raised
    ELSE IF ~d.email_matches THEN ErrorPayload
    ELSE IF d.order = "return_requested" THEN ErrorPayload
    ELSE IF d.order = "not_delivered" THEN ErrorPayload
    ELSE IF d.order = "too_old" THEN ErrorPayload
    ELSE Payload

GetPolicyInfo(a, d) ==
    IF ~a.others THEN ErrorPayload
    ELSE IF d.fault THEN Raised
    ELSE IF d.rows = 0 THEN ErrorPayload
    ELSE Payload

GetRecommendations(a, d) ==
    IF d.fault THEN Raised ELSE Payload

SearchBooks(a, d) ==
    IF ~a.others THEN ErrorPayload
    ELSE IF d.fault THEN Raised
    ELSE Payload

CreateSupportTicket(a, d) ==
    IF Falsy(a.email) \/ ~a.others THEN ErrorPayload
    ELSE IF d.fault THEN Raised
    ELSE IF ~d.customer THEN ErrorPayload
    ELSE IF a.priority # Absent /\ a.priority \notin ValidPriorities THEN Raised
    ELSE Payload

\* execute_tool: dispatch on the tool name; what a handler raises is not caught.
ExecuteToolResult(tool_name, a, d) ==
    IF tool_name = "get_order_status" THEN GetOrderStatus(a, d)
    ELSE IF tool_name = "search_orders" THEN SearchOrders(a, d)
    ELSE IF tool_name = "get_customer_info" THEN GetCustomerInfo(a, d)
    ELSE IF tool_name = "initiate_return" THEN InitiateReturn(a, d)
    ELSE IF tool_name = "get_policy_info" THEN GetPolicyInfo(a, d)
    ELSE IF tool_name = "get_recommendations" THEN GetRecommendations(a, d)
    ELSE IF tool_name = "search_books" THEN SearchBooks(a, d)
    ELSE IF tool_name = "create_support_ticket" THEN CreateSupportTicket(a, d)
    ELSE ErrorPayload

NoExec == [status |-> "idle", name |-> "", args |-> << >>, view |-> << >>, result |-> ""]

\* No order row is looked at.
NoOrderRow == [status |-> "", return_requested |-> FALSE, return_reason |-> Null,
               return_approved |-> FALSE, refund_amount |-> 0,
               refund_processed |-> FALSE, total_amount |-> 0, delivered_days |-> -1]

\* ConnectionManager.__init__: no connection, no agent, no user.  0 and Absent
\* stand for no entry; created counts the AgentController objects made so far
\* for the session id.
NoManager == [active_connections |-> 0, agents |-> 0, created |-> 0,
              session_users |-> Absent]

\* The loops are followed for calls of one tool; its name stands for any.
CalledTool == "get_order_status"

\* tools_used.append(name) unless the name is in the list.
UseTool(used, name) ==
    IF \E i \in 1..Len(used) : used[i] = name THEN used ELSE Append(used, name)

\* ------------------------------------------------------------ initial state
\* AgentController.__init__: which clients exist depends on the environment's
\* API keys; the agent is either the ConnectionManager's (created without a
\* database session, one is attached per message) or one a caller built
\* without a database session and calls directly.
Init ==
    /\ anthropic_client \in BOOLEAN
    /\ openai_client \in BOOLEAN
    /\ via_ws \in BOOLEAN
    /\ db = FALSE
    /\ active_provider = "anthropic"
    /\ conversation_history = << >>
    /\ openai_messages = << >>
    /\ turn_count = 0
    /\ pc = "idle"
    /\ loop_turn = 0
    /\ batch \in 1..MaxToolCalls
    /\ chunks = << >>
    /\ sent = << >>
    /\ anthropic_calls = 0
    /\ openai_calls = 0
    /\ failed = {}
    /\ raised = FALSE
    /\ reissues = 0
    /\ exec_calls = 0
    /\ start_provider = "anthropic"
    /\ switches = 0
    /\ last_response = "none"
    /\ user_email = Null
    /\ current_order_id = Null
    /\ tool_call = NoToolCall
    /\ exec = NoExec
    /\ user_message = << >>
    /\ order_row = NoOrderRow
    /\ return_log = << >>
    /\ manager = NoManager
    /\ handlers = << >>
    /\ executions = << >>
    /\ tools_used = << >>
    /\ sessions = << >>

\* ------------------------------------------------- start of process_message
\* websocket_endpoint up to the call of process_message, then process_message
\* up to the provider dispatch.
Preamble ==
    /\ pc \in {"idle", "done"}
    /\ turn_count < MaxMsgs
    /\ turn_count' = turn_count + 1
    /\ db' = (via_ws \/ db)
    /\ start_provider' = active_provider
    /\ anthropic_calls' = 0
    /\ openai_calls' = 0
    /\ failed' = {}
    /\ raised' = FALSE
    /\ reissues' = 0
    /\ exec_calls' = 0
    /\ switches' = 0
    /\ last_response' = "none"
    /\ loop_turn' = 0
    /\ UNCHANGED << config, active_provider >>

TypingOn == IF via_ws THEN << "typing_on" >> ELSE << >>

\* The invocation returns after yielding cs.
Returns(cs) ==
    /\ chunks' = chunks \o cs
    /\ sent' = sent \o Forward(cs) \o (IF via_ws THEN CompleteEvents ELSE << >>)
    /\ pc' = "done"

\* An exception leaves process_message.
Raises ==
    /\ chunks' = chunks
    /\ sent' = sent \o (IF via_ws THEN FailureEvents ELSE << >>)
    /\ raised' = TRUE
    /\ pc' = "done"

\* The invocation yields cs and stays in the loop of provider p.
Continues(cs, p) ==
    /\ chunks' = chunks \o cs
    /\ sent' = sent \o Forward(cs)
    /\ pc' = p

\* process_message with the Anthropic branch taken: _process_with_anthropic
\* appends the user text.
StartAnthropic ==
    /\ Preamble
    /\ anthropic_client /\ active_provider = "anthropic"
    /\ conversation_history' = Append(conversation_history, UserText(turn_count + 1))
    /\ chunks' = << >>
    /\ sent' = TypingOn
    /\ pc' = "anthropic"
    /\ UNCHANGED openai_messages

\* process_message with the OpenAI branch taken from the start.
StartOpenAI ==
    /\ Preamble
    /\ ~(anthropic_client /\ active_provider = "anthropic")
    /\ openai_client /\ active_provider = "openai"
    /\ openai_messages' = BeginOpenAI(openai_messages, turn_count + 1)
    /\ chunks' = << >>
    /\ sent' = TypingOn
    /\ pc' = "openai"
    /\ UNCHANGED conversation_history


\* Variant of StartNoProvider that records the user text before giving up.
StartNoProviderKeepsText ==
    /\ Preamble
    /\ ~(anthropic_client /\ active_provider = "anthropic")
    /\ ~(openai_client /\ active_provider = "openai")
    /\ chunks' = << ErrorChunk(turn_count + 1, "no_provider") >>
    /\ sent' = TypingOn \o Forward(<< ErrorChunk(turn_count + 1, "no_provider") >>)
                \o (IF via_ws THEN CompleteEvents ELSE << >>)
    /\ pc' = "done"
    /\ conversation_history' = Append(conversation_history, UserText(turn_count + 1))
    /\ UNCHANGED openai_messages

\* process_message with neither branch taken.
StartNoProvider ==
    /\ Preamble
    /\ ~(anthropic_client /\ active_provider = "anthropic")
    /\ ~(openai_client /\ active_provider = "openai")
    /\ chunks' = << ErrorChunk(turn_count + 1, "no_provider") >>
    /\ sent' = TypingOn \o Forward(<< ErrorChunk(turn_count + 1, "no_provider") >>)
                \o (IF via_ws THEN CompleteEvents ELSE << >>)
    /\ pc' = "done"
    /\ UNCHANGED << conversation_history, openai_messages >>

\* --------------------------------------------------- _process_with_anthropic
InAnthropicLoop == pc = "anthropic" /\ loop_turn < max_turns

\* The response holds text only: the loop breaks, the history is trimmed.
AnthropicText ==
    /\ InAnthropicLoop
    /\ last_response' = "text"
    /\ anthropic_calls' = anthropic_calls + 1
    /\ loop_turn' = loop_turn + 1
    /\ conversation_history' =
           TrimHistory(Append(conversation_history, AssistantMsg(NoIds)))
    /\ Returns(<< ContentChunk("anthropic", turn_count, loop_turn + 1) >>)
    /\ UNCHANGED << config, db, active_provider, openai_messages, turn_count,
                    openai_calls, failed, raised, reissues, exec_calls,
                    start_provider, switches >>

\* Chunks of one Anthropic turn that requests the tool calls ids: a tool_use
\* per content_block_start of the stream, then per call a tool_use and a
\* tool_result.
AnthropicToolChunks(ids) ==
    [i \in 1..Len(ids) |-> ToolUseChunk(ids[i])]
    \o Flatten([i \in 1..Len(ids) |-> << ToolUseChunk(ids[i]), ToolResultChunk(ids[i]) >>])


\* Variant of AnthropicTools that gives up with an error chunk when no
\* database session is attached.
AnthropicToolsAbortNoDb ==
    /\ InAnthropicLoop
    /\ last_response' = "tools"
    /\ LET ids == CallIds("anthropic", turn_count, loop_turn + 1, batch)
           rs == [i \in 1..batch |-> ToolOutcome(db)]
       IN  IF db
           THEN /\ conversation_history' =
                       conversation_history \o << AssistantMsg(ids), ToolResultsMsg(ids, rs) >>
                /\ Continues(AnthropicToolChunks(ids), "anthropic")
           ELSE /\ conversation_history' = Append(conversation_history, AssistantMsg(ids))
                /\ Returns(<< ErrorChunk(turn_count, "db_unavailable") >>)
    /\ anthropic_calls' = anthropic_calls + 1
    /\ loop_turn' = loop_turn + 1
    /\ exec_calls' = exec_calls + (IF db THEN batch ELSE 0)
    /\ tools_used' = UseTool(tools_used, CalledTool)
    /\ UNCHANGED << static, current_order_id, executions, db, active_provider, openai_messages, turn_count,
                    openai_calls, failed, raised, reissues, start_provider, switches >>

\* The response requests tools: each is answered, the results are appended.
AnthropicTools ==
    /\ InAnthropicLoop
    /\ last_response' = "tools"
    /\ LET ids == CallIds("anthropic", turn_count, loop_turn + 1, batch)
           rs == [i \in 1..batch |-> ToolOutcome(db)]
       IN  /\ conversation_history' =
                  conversation_history \o << AssistantMsg(ids), ToolResultsMsg(ids, rs) >>
           /\ Continues(AnthropicToolChunks(ids), "anthropic")
    /\ anthropic_calls' = anthropic_calls + 1
    /\ loop_turn' = loop_turn + 1
    /\ exec_calls' = exec_calls + (IF db THEN batch ELSE 0)
    /\ tools_used' = UseTool(tools_used, CalledTool)
    /\ UNCHANGED << static, current_order_id, executions, db, active_provider, openai_messages, turn_count,
                    openai_calls, failed, raised, reissues, start_provider, switches >>


\* Variant of AnthropicExhausted that returns without trimming the history.
AnthropicExhaustedNoTrim ==
    /\ pc = "anthropic" /\ ~(loop_turn < max_turns)
    /\ last_response' = "none"
    /\ conversation_history' = conversation_history
    /\ Returns(<< >>)
    /\ UNCHANGED << config, db, active_provider, openai_messages, turn_count,
                    loop_turn, anthropic_calls, openai_calls, failed, raised,
                    reissues, exec_calls, start_provider, switches >>

\* The while condition fails: trim and return.
AnthropicExhausted ==
    /\ pc = "anthropic" /\ ~(loop_turn < max_turns)
    /\ last_response' = "none"
    /\ conversation_history' = TrimHistory(conversation_history)
    /\ Returns(<< >>)
    /\ UNCHANGED << config, db, active_provider, openai_messages, turn_count,
                    loop_turn, anthropic_calls, openai_calls, failed, raised,
                    reissues, exec_calls, start_provider, switches >>

\* The provider call raises anthropic.APIError: the handler of process_message
\* switches the provider, pops the last user message and goes on to the
\* OpenAI branch.
AnthropicAPIError ==
    /\ InAnthropicLoop
    /\ last_response' = "api_error"
    /\ anthropic_calls' = anthropic_calls + 1
    /\ failed' = failed \cup {"anthropic"}
    /\ \E e \in APIErrors :
         IF ShouldFallbackToOpenAI(e)
         THEN /\ active_provider' = "openai"
              /\ switches' = switches + (IF active_provider = "openai" THEN 0 ELSE 1)
              /\ conversation_history' = PopLastUser(conversation_history)
              /\ IF openai_client
                 THEN /\ openai_messages' = BeginOpenAI(openai_messages, turn_count)
                      /\ reissues' = reissues + 1
                      /\ loop_turn' = 0
                      /\ Continues(<< >>, "openai")
                 ELSE /\ Returns(<< ErrorChunk(turn_count, "no_provider") >>)
                      /\ UNCHANGED << openai_messages, reissues, loop_turn >>
         ELSE /\ Returns(<< ErrorChunk(turn_count, "trouble") >>)
              /\ UNCHANGED << active_provider, switches, conversation_history,
                              openai_messages, reissues, loop_turn >>
    /\ UNCHANGED << config, db, turn_count, openai_calls, raised,
                    exec_calls, start_provider >>

\* The provider call or its stream raises an exception that is not an
\* anthropic.APIError: nothing in process_message catches it.
AnthropicException ==
    /\ InAnthropicLoop
    /\ last_response' = "exception"
    /\ anthropic_calls' = anthropic_calls + 1
    /\ Raises
    /\ UNCHANGED << config, db, active_provider, conversation_history, openai_messages,
                    turn_count, loop_turn, openai_calls, failed, reissues,
                    exec_calls, start_provider, switches >>

\* ------------------------------------------------------ _process_with_openai
InOpenAILoop == pc = "openai" /\ loop_turn < max_turns

OpenAIText ==
    /\ InOpenAILoop
    /\ last_response' = "text"
    /\ openai_calls' = openai_calls + 1
    /\ loop_turn' = loop_turn + 1
    /\ openai_messages' = TrimOpenAI(Append(openai_messages, AssistantMsg(NoIds)))
    /\ Returns(<< ContentChunk("openai", turn_count, loop_turn + 1) >>)
    /\ UNCHANGED << config, db, active_provider, conversation_history, turn_count,
                    anthropic_calls, failed, raised, reissues, exec_calls,
                    start_provider, switches >>

\* Chunks of one OpenAI turn that requests the tool calls ids: a tool_use per
\* streamed function name, then per call a tool_result.
OpenAIToolChunks(ids) ==
    [i \in 1..Len(ids) |-> ToolUseChunk(ids[i])]
    \o [i \in 1..Len(ids) |-> ToolResultChunk(ids[i])]

OpenAITools ==
    /\ InOpenAILoop
    /\ last_response' = "tools"
    /\ LET ids == CallIds("openai", turn_count, loop_turn + 1, batch)
       IN  /\ openai_messages' =
                  openai_messages \o << AssistantMsg(ids) >>
                  \o [i \in 1..batch |-> ToolMsg(ids[i], ToolOutcome(db))]
           /\ Continues(OpenAIToolChunks(ids), "openai")
    /\ openai_calls' = openai_calls + 1
    /\ loop_turn' = loop_turn + 1
    /\ exec_calls' = exec_calls + (IF db THEN batch ELSE 0)
    /\ tools_used' = UseTool(tools_used, CalledTool)
    /\ UNCHANGED << static, current_order_id, executions, db, active_provider, conversation_history, turn_count,
                    anthropic_calls, failed, raised, reissues,
                    start_provider, switches >>

\* The response requests tools and the arguments of its k-th call are JSON
\* that is no object: with a database session attached the enrichment calls
\* .get on them, and the AttributeError leaves process_message.  The calls
\* before the k-th have been executed and answered.
OpenAIToolsNotDict ==
    /\ InOpenAILoop
    /\ db
    /\ last_response' = "tools_not_dict"
    /\ \E k \in 1..batch :
         LET ids == CallIds("openai", turn_count, loop_turn + 1, batch)
         IN  /\ openai_messages' =
                    openai_messages \o << AssistantMsg(ids) >>
                    \o [i \in 1..(k - 1) |-> ToolMsg(ids[i], ToolOutcome(db))]
             /\ chunks' = chunks \o [i \in 1..batch |-> ToolUseChunk(ids[i])]
                                 \o [i \in 1..(k - 1) |-> ToolResultChunk(ids[i])]
             /\ sent' = sent
                        \o Forward([i \in 1..batch |-> ToolUseChunk(ids[i])]
                                   \o [i \in 1..(k - 1) |-> ToolResultChunk(ids[i])])
                        \o (IF via_ws THEN FailureEvents ELSE << >>)
             /\ exec_calls' = exec_calls + (k - 1)
    /\ raised' = TRUE
    /\ pc' = "done"
    /\ openai_calls' = openai_calls + 1
    /\ loop_turn' = loop_turn + 1
    /\ tools_used' = UseTool(tools_used, CalledTool)
    /\ UNCHANGED << static, current_order_id, executions, db, active_provider, conversation_history, turn_count,
                    anthropic_calls, failed, reissues, start_provider, switches >>

OpenAIExhausted ==
    /\ pc = "openai" /\ ~(loop_turn < max_turns)
    /\ last_response' = "none"
    /\ openai_messages' = TrimOpenAI(openai_messages)
    /\ Returns(<< >>)
    /\ UNCHANGED << config, db, active_provider, conversation_history, turn_count,
                    loop_turn, anthropic_calls, openai_calls, failed, raised,
                    reissues, exec_calls, start_provider, switches >>


\* Variant of OpenAIAPIError that goes back to the primary provider for the
\* next message.
OpenAIAPIErrorSwitchBack ==
    /\ InOpenAILoop
    /\ last_response' = "api_error"
    /\ openai_calls' = openai_calls + 1
    /\ failed' = failed \cup {"openai"}
    /\ active_provider' = "anthropic"
    /\ Returns(<< ErrorChunk(turn_count, "both_unavailable") >>)
    /\ UNCHANGED << config, db, conversation_history, openai_messages,
                    turn_count, loop_turn, anthropic_calls, raised, reissues,
                    exec_calls, start_provider, switches >>

\* Variant of OpenAIAPIError that swallows the error and calls the provider again.
OpenAIAPIErrorRetry ==
    /\ InOpenAILoop
    /\ last_response' = "api_error"
    /\ openai_calls' = openai_calls + 1
    /\ failed' = failed \cup {"openai"}
    /\ loop_turn' = loop_turn + 1
    /\ Continues(<< >>, "openai")
    /\ UNCHANGED << config, db, active_provider, conversation_history, openai_messages,
                    turn_count, anthropic_calls, raised, reissues,
                    exec_calls, start_provider, switches >>

\* The provider call raises openai.APIError: one error chunk, then return.
OpenAIAPIError ==
    /\ InOpenAILoop
    /\ last_response' = "api_error"
    /\ openai_calls' = openai_calls + 1
    /\ failed' = failed \cup {"openai"}
    /\ Returns(<< ErrorChunk(turn_count, "both_unavailable") >>)
    /\ UNCHANGED << config, db, active_provider, conversation_history, openai_messages,
                    turn_count, loop_turn, anthropic_calls, raised, reissues,
                    exec_calls, start_provider, switches >>

\* An exception that is not an openai.APIError leaves process_message.
OpenAIException ==
    /\ InOpenAILoop
    /\ last_response' = "exception"
    /\ openai_calls' = openai_calls + 1
    /\ Raises
    /\ UNCHANGED << config, db, active_provider, conversation_history, openai_messages,
                    turn_count, loop_turn, anthropic_calls, failed, reissues,
                    exec_calls, start_provider, switches >>


\* Variant of ResetConversation that also makes the primary provider active again.
ResetConversationAndProvider ==
    /\ pc \in {"idle", "done"}
    /\ turn_count > 0
    /\ conversation_history' = << >>
    /\ openai_messages' = << >>
    /\ turn_count' = 0
    /\ active_provider' = "anthropic"
    /\ current_order_id' = Null
    /\ tools_used' = << >>
    /\ UNCHANGED << static, executions, db, pc, loop_turn, chunks, sent,
                    anthropic_calls, openai_calls, failed, raised, reissues,
                    exec_calls, start_provider, switches, last_response >>

\* ----------------------------------------------------- reset_conversation
ResetConversation ==
    /\ pc \in {"idle", "done"}
    /\ turn_count > 0
    /\ conversation_history' = << >>
    /\ openai_messages' = << >>
    /\ turn_count' = 0
    /\ current_order_id' = Null
    /\ tools_used' = << >>
    /\ UNCHANGED << static, executions, db, active_provider, pc, loop_turn, chunks, sent,
                    anthropic_calls, openai_calls, failed, raised, reissues,
                    exec_calls, start_provider, switches, last_response >>

Next ==
    \/ StartAnthropic
    \/ StartOpenAI
    \/ StartNoProvider
    \/ AnthropicText
    \/ AnthropicTools
    \/ AnthropicExhausted
    \/ AnthropicAPIError
    \/ AnthropicException
    \/ OpenAIText
    \/ OpenAITools
    \/ OpenAIExhausted
    \/ OpenAIAPIError
    \/ OpenAIException
    \/ ResetConversation

\* The exceptions of AnthropicException and OpenAIException stand for every
\* failure process_message does not catch; the one with a cause inside the
\* loop, OpenAIToolsNotDict, is followed step by step in SpecDecode.
Spec == Init /\ [][Next]_vars

\* ----------------------------- one message on the OpenAI path, step by step
\* The first message of a session whose first Anthropic call raised an API
\* error: the user text has been popped and handed to the OpenAI loop.
InitDecode ==
    /\ anthropic_client = TRUE
    /\ openai_client = TRUE
    /\ via_ws \in BOOLEAN
    /\ db = via_ws
    /\ active_provider = "openai"
    /\ conversation_history = << >>
    /\ openai_messages = BeginOpenAI(<< >>, 1)
    /\ turn_count = 1
    /\ pc = "openai"
    /\ loop_turn = 0
    /\ batch \in 1..MaxToolCalls
    /\ chunks = << >>
    /\ sent = TypingOn
    /\ anthropic_calls = 1
    /\ openai_calls = 0
    /\ failed = {"anthropic"}
    /\ raised = FALSE
    /\ reissues = 1
    /\ exec_calls = 0
    /\ start_provider = "anthropic"
    /\ switches = 1
    /\ last_response = "api_error"
    /\ user_email = Null
    /\ current_order_id = Null
    /\ tool_call = NoToolCall
    /\ exec = NoExec
    /\ user_message = << >>
    /\ order_row = NoOrderRow
    /\ return_log = << >>
    /\ manager = NoManager
    /\ handlers = << >>
    /\ executions = << >>
    /\ tools_used = << >>
    /\ sessions = << >>

NextDecode ==
    \/ OpenAIText
    \/ OpenAITools
    \/ OpenAIToolsNotDict
    \/ OpenAIExhausted
    \/ OpenAIAPIError

SpecDecode == InitDecode /\ [][NextDecode]_vars

\* ------------------------------------------- context enrichment, on its own
\* The main variables at rest.
AgentAtRest ==
    /\ anthropic_client = TRUE
    /\ openai_client = TRUE
    /\ via_ws = TRUE
    /\ db = TRUE
    /\ active_provider = "anthropic"
    /\ conversation_history = << >>
    /\ openai_messages = << >>
    /\ turn_count = 0
    /\ pc = "idle"
    /\ loop_turn = 0
    /\ batch = 1
    /\ chunks = << >>
    /\ sent = << >>
    /\ anthropic_calls = 0
    /\ openai_calls = 0
    /\ failed = {}
    /\ raised = FALSE
    /\ reissues = 0
    /\ exec_calls = 0
    /\ start_provider = "anthropic"
    /\ switches = 0
    /\ last_response = "none"

agent_vars == << anthropic_client, openai_client, via_ws, db, active_provider,
                 conversation_history, openai_messages, turn_count, pc, loop_turn,
                 batch, chunks, sent, anthropic_calls, openai_calls, failed, raised,
                 reissues, exec_calls, start_provider, switches, last_response >>

SessionEmails == {Null, "", "user@example.com"}
SessionOrders == {Null, "ORD-2024-00001"}
ModelOrderIds == {Absent, Null, "", "ORD-2024-00002"}
ModelEmails == {Absent, Null, "", "model@example.com"}
ModelReasons == {Absent, "damaged"}

ModelArgs ==
    { [k \in ArgKeys |-> IF k = "order_id" THEN o ELSE IF k = "email" THEN e ELSE r] :
        o \in ModelOrderIds, e \in ModelEmails, r \in ModelReasons }

\* A session with some user context and a tool call the model has just sent
\* on one of the two provider paths, a database session being attached.
InitEnrich ==
    /\ AgentAtRest
    /\ user_email \in SessionEmails
    /\ current_order_id \in SessionOrders
    /\ exec = NoExec
    /\ user_message = << >>
    /\ order_row = NoOrderRow
    /\ return_log = << >>
    /\ manager = NoManager
    /\ handlers = << >>
    /\ executions = << >>
    /\ tools_used = << >>
    /\ sessions = << >>
    /\ \E path \in {"anthropic", "openai"}, name \in ToolNames \cup {"unknown_tool"},
          raw \in {RawDict(a) : a \in ModelArgs} \cup {RawNotDict, RawBadJson} :
          /\ (raw = RawBadJson => path = "openai")
          /\ tool_call = [status |-> "requested", path |-> path, name |-> name,
                          raw |-> raw, input |-> EmptyArgs]

\* _process_with_anthropic: tool_input of one tool call, after both injections.
EnrichAnthropic ==
    /\ tool_call.status = "requested" /\ tool_call.path = "anthropic"
    /\ tool_call' =
          [tool_call EXCEPT
              !.status = "enriched",
              !.input = InjectEmail(tool_call.name,
                            InjectOrderContext(tool_call.name,
                                AnthropicInput(tool_call.raw), current_order_id),
                            user_email)]
    /\ UNCHANGED << agent_vars, user_email, current_order_id, exec,
                    user_message, order_row, return_log,
             manager, handlers, executions, tools_used, sessions >>

\* _process_with_openai: the same for a tool call whose arguments were parsed.
EnrichOpenAI ==
    /\ tool_call.status = "requested" /\ tool_call.path = "openai"
    /\ IF OpenAIInputIsDict(tool_call.raw)
       THEN tool_call' =
              [tool_call EXCEPT
                  !.status = "enriched",
                  !.input = InjectEmail(tool_call.name,
                                InjectOrderContext(tool_call.name,
                                    OpenAIInput(tool_call.raw), current_order_id),
                                user_email)]
       ELSE tool_call' = [tool_call EXCEPT !.status = "raised"]
    /\ UNCHANGED << agent_vars, user_email, current_order_id, exec,
                    user_message, order_row, return_log,
             manager, handlers, executions, tools_used, sessions >>

NextEnrich == EnrichAnthropic \/ EnrichOpenAI

SpecEnrich == InitEnrich /\ [][NextEnrich]_vars

\* ------------------------------------------------- execute_tool, on its own
ExecArgs ==
    [order_id : {Absent, "", "ORD-2024-00001"}, email : {Absent, "", "user@example.com"},
     others : BOOLEAN, priority : Priorities]

\* A pending call of execute_tool with some arguments, against some database.
InitExec ==
    /\ AgentAtRest
    /\ user_email = Null
    /\ current_order_id = Null
    /\ tool_call = NoToolCall
    /\ user_message = << >>
    /\ order_row = NoOrderRow
    /\ return_log = << >>
    /\ manager = NoManager
    /\ handlers = << >>
    /\ executions = << >>
    /\ tools_used = << >>
    /\ sessions = << >>
    /\ \E name \in ToolNames \cup {"unknown_tool"}, a \in ExecArgs, d \in DbViews :
          \* order_number is unique: a query by order_id returns at most one row
          /\ (~Falsy(a.order_id) => d.rows <= 1)
          /\ exec = [status |-> "called", name |-> name, args |-> a, view |-> d,
                     result |-> ""]

ExecuteTool ==
    /\ exec.status = "called"
    /\ exec' = [exec EXCEPT
                   !.status = "returned",
                   !.result = ExecuteToolResult(exec.name, exec.args, exec.view)]
    /\ UNCHANGED << agent_vars, user_email, current_order_id, tool_call,
                    user_message, order_row, return_log,
             manager, handlers, executions, tools_used, sessions >>

NextExec == ExecuteTool

SpecExec == InitExec /\ [][NextExec]_vars

\* ------------------------------------------- order-id extraction, on its own
\* A text is the sequence of its characters.  ORDER_ID_PATTERN is
\* ORD-\d{4}-\d{5} under re.IGNORECASE: 14 characters.
MaxSegments == 3

PatternLen == 14

Digits == {"0", "1", "2", "3", "4", "5", "6", "7", "8", "9"}

\* str.upper on one character of the texts considered.
Upper(c) ==
    IF c = "o" THEN "O"
    ELSE IF c = "r" THEN "R"
    ELSE IF c = "d" THEN "D"
    ELSE IF c = "x" THEN "X"
    ELSE c

\* The pattern matches the 14 characters of t that start at position i.
MatchAt(t, i) ==
    /\ i >= 1 /\ i + PatternLen - 1 <= Len(t)
    /\ t[i] \in {"O", "o"} /\ t[i + 1] \in {"R", "r"} /\ t[i + 2] \in {"D", "d"}
    /\ t[i + 3] = "-"
    /\ \A k \in 4..7 : t[i + k] \in Digits
    /\ t[i + 8] = "-"
    /\ \A k \in 9..13 : t[i + k] \in Digits

\* ORDER_ID_PATTERN.search: scan from the left, 0 when nothing matches.
RECURSIVE Search(_, _)
Search(t, i) ==
    IF i + PatternLen - 1 > Len(t) THEN 0
    ELSE IF MatchAt(t, i) THEN i
    ELSE Search(t, i + 1)

\* None, for a value kept as its characters.
NoneChars == << >>


\* Variant of ExtractOrderId that returns the match as it was written.
ExtractOrderIdNoUpper(t) ==
    LET i == Search(t, 1)
    IN  IF i = 0 THEN NoneChars
        ELSE [k \in 1..PatternLen |-> t[i + k - 1]]

\* _extract_order_id: match.group(0).upper(), or None.
ExtractOrderId(t) ==
    LET i == Search(t, 1)
    IN  IF i = 0 THEN NoneChars
        ELSE [k \in 1..PatternLen |-> Upper(t[i + k - 1])]

\* Pieces the texts are made of: order numbers in several spellings, near
\* misses, and filler.
Segments ==
    { << "O","R","D","-","2","0","2","4","-","0","0","0","0","1" >>,
      << "o","r","d","-","2","0","2","4","-","0","0","0","0","2" >>,
      << "o","R","d","-","2","0","2","4","-","0","0","0","0" >>,
      << "7" >>,
      << " ", "x" >>,
      << "O","R","D","_","2","0","2","4","-","0","0","0","0","3" >>,
      << "x","O","r","D","-","1","9","9","9","-","1","2","3","4","5","6" >> }

RECURSIVE TextsOf(_)
TextsOf(n) ==
    IF n = 0 THEN { << >> }
    ELSE LET shorter == TextsOf(n - 1)
         IN  shorter \cup { t \o g : t \in shorter, g \in Segments }

\* current_order_id before the message, as its characters.
EarlierOrders == { NoneChars,
                   << "O","R","D","-","2","0","2","3","-","9","9","9","9","9" >> }

\* An agent between two messages, and the text of the next message.
InitExtract ==
    /\ AgentAtRest
    /\ user_email = Null
    /\ tool_call = NoToolCall
    /\ exec = NoExec
    /\ current_order_id \in EarlierOrders
    /\ user_message \in TextsOf(MaxSegments)
    /\ order_row = NoOrderRow
    /\ return_log = << >>
    /\ manager = NoManager
    /\ handlers = << >>
    /\ executions = << >>
    /\ tools_used = << >>
    /\ sessions = << >>

\* process_message from its entry to the provider dispatch: the turn is
\* counted and the order id of the text, if any, is remembered.
ObserveUserMessage ==
    /\ pc = "idle"
    /\ turn_count' = turn_count + 1
    /\ current_order_id' =
          ( IF ExtractOrderId(user_message) # NoneChars
            THEN ExtractOrderId(user_message)
            ELSE current_order_id )
    /\ pc' = "observed"
    /\ UNCHANGED << anthropic_client, openai_client, via_ws, db, active_provider,
                    conversation_history, openai_messages, loop_turn, batch, chunks,
                    sent, anthropic_calls, openai_calls, failed, raised, reissues,
                    exec_calls, start_provider, switches, last_response,
                    user_email, tool_call, exec, user_message, order_row, return_log,
             manager, handlers, executions, tools_used, sessions >>

\* The first provider call of the invocation.
FirstProviderCall ==
    /\ pc = "observed"
    /\ anthropic_client /\ active_provider = "anthropic"
    /\ conversation_history' = Append(conversation_history, UserText(turn_count))
    /\ anthropic_calls' = anthropic_calls + 1
    /\ pc' = "anthropic"
    /\ UNCHANGED << anthropic_client, openai_client, via_ws, db, active_provider,
                    openai_messages, turn_count, loop_turn, batch, chunks,
                    sent, openai_calls, failed, raised, reissues,
                    exec_calls, start_provider, switches, last_response,
                    user_email, current_order_id, tool_call, exec, user_message,
             order_row, return_log,
             manager, handlers, executions, tools_used, sessions >>

NextExtract == ObserveUserMessage \/ FirstProviderCall

SpecExtract == InitExtract /\ [][NextExtract]_vars

\* ---------------------------------------------- initiate_return, on its own
MaxReturnCalls == 3

\* The return window of _initiate_return, in days.
ReturnWindowDays == 30

\* str.lower on the email addresses considered.
Lower(e) == IF e = "USER@EXAMPLE.COM" THEN "user@example.com" ELSE e

\* The email of the customer the order belongs to.
OwnerEmail == "user@example.com"

\* The order_number of the order; no order has the other number.
OrderNumber == "ORD-2024-00001"

ReturnArgs ==
    [order_id : {Absent, OrderNumber, "ORD-2024-00009"},
     reason : {Absent, "damaged"},
     email : {Absent, "user@example.com", "USER@EXAMPLE.COM", "other@example.com"}]

\* Where the database fails during a call, if it does.
DbFaults == {"none", "select_order", "select_customer", "commit"}

\* Order rows a call may find: delivered a few days or long ago or with no
\* delivery date, not delivered yet, or returned already.
OrderRows ==
    { [status |-> st, return_requested |-> FALSE, return_reason |-> Null,
       return_approved |-> FALSE, refund_amount |-> 0, refund_processed |-> FALSE,
       total_amount |-> 25, delivered_days |-> dd] :
         st \in {"delivered", "shipped"}, dd \in {-1, 5, 31} }
    \cup
    { [status |-> "returned", return_requested |-> TRUE, return_reason |-> "other",
       return_approved |-> TRUE, refund_amount |-> 25, refund_processed |-> TRUE,
       total_amount |-> 25, delivered_days |-> 5] }


\* Variant of InitiateReturnOn that does not look at return_requested.
InitiateReturnOnNoCheck(a, fault, customer_found, o) ==
    IF Falsy(a.order_id) \/ Falsy(a.reason) \/ Falsy(a.email)
    THEN [outcome |-> "missing_arguments", row |-> o]
    ELSE IF fault = "select_order" THEN [outcome |-> "raised", row |-> o]
    ELSE IF a.order_id # OrderNumber THEN [outcome |-> "order_not_found", row |-> o]
    ELSE IF fault = "select_customer" THEN [outcome |-> "raised", row |-> o]
    ELSE IF ~customer_found THEN [outcome |-> "raised", row |-> o]
    ELSE IF Lower(OwnerEmail) # Lower(a.email)
    THEN [outcome |-> "email_mismatch", row |-> o]
    ELSE IF o.status # "delivered" /\ o.status # "returned"
    THEN [outcome |-> "not_delivered", row |-> o]
    ELSE IF o.delivered_days # -1 /\ o.delivered_days > ReturnWindowDays
    THEN [outcome |-> "window_expired", row |-> o]
    ELSE IF fault = "commit" THEN [outcome |-> "raised", row |-> o]
    ELSE [outcome |-> "success",
          row |-> [o EXCEPT !.return_requested = TRUE, !.return_reason = a.reason,
                            !.return_approved = TRUE, !.status = "returned",
                            !.refund_amount = o.total_amount,
                            !.refund_processed = TRUE]]

\* Variant of InitiateReturnOn that does not check the return window.
InitiateReturnOnNoWindow(a, fault, customer_found, o) ==
    IF Falsy(a.order_id) \/ Falsy(a.reason) \/ Falsy(a.email)
    THEN [outcome |-> "missing_arguments", row |-> o]
    ELSE IF fault = "select_order" THEN [outcome |-> "raised", row |-> o]
    ELSE IF a.order_id # OrderNumber THEN [outcome |-> "order_not_found", row |-> o]
    ELSE IF fault = "select_customer" THEN [outcome |-> "raised", row |-> o]
    ELSE IF ~customer_found THEN [outcome |-> "raised", row |-> o]
    ELSE IF Lower(OwnerEmail) # Lower(a.email)
    THEN [outcome |-> "email_mismatch", row |-> o]
    ELSE IF o.return_requested
    THEN [outcome |-> "already_requested", row |-> o]
    ELSE IF o.status # "delivered"
    THEN [outcome |-> "not_delivered", row |-> o]
    ELSE IF fault = "commit" THEN [outcome |-> "raised", row |-> o]
    ELSE [outcome |-> "success",
          row |-> [o EXCEPT !.return_requested = TRUE, !.return_reason = a.reason,
                            !.return_approved = TRUE, !.status = "returned",
                            !.refund_amount = o.total_amount,
                            !.refund_processed = TRUE]]

\* _initiate_return on the order row o: the outcome of the call and the row
\* as the database holds it afterwards.
InitiateReturnOn(a, fault, customer_found, o) ==
    IF Falsy(a.order_id) \/ Falsy(a.reason) \/ Falsy(a.email)
    THEN [outcome |-> "missing_arguments", row |-> o]
    ELSE IF fault = "select_order" THEN [outcome |-> "raised", row |-> o]
    ELSE IF a.order_id # OrderNumber THEN [outcome |-> "order_not_found", row |-> o]
    ELSE IF fault = "select_customer" THEN [outcome |-> "raised", row |-> o]
    ELSE IF ~customer_found THEN [outcome |-> "raised", row |-> o]
    ELSE IF Lower(OwnerEmail) # Lower(a.email)
    THEN [outcome |-> "email_mismatch", row |-> o]
    ELSE IF o.return_requested
    THEN [outcome |-> "already_requested", row |-> o]
    ELSE IF o.status # "delivered"
    THEN [outcome |-> "not_delivered", row |-> o]
    ELSE IF o.delivered_days # -1 /\ o.delivered_days > ReturnWindowDays
    THEN [outcome |-> "window_expired", row |-> o]
    ELSE IF fault = "commit" THEN [outcome |-> "raised", row |-> o]
    ELSE [outcome |-> "success",
          row |-> [o EXCEPT !.return_requested = TRUE, !.return_reason = a.reason,
                            !.return_approved = TRUE, !.status = "returned",
                            !.refund_amount = o.total_amount,
                            !.refund_processed = TRUE]]

\* An order in the database and no call made for it yet.
InitReturn ==
    /\ AgentAtRest
    /\ user_email = Null
    /\ current_order_id = Null
    /\ tool_call = NoToolCall
    /\ exec = NoExec
    /\ user_message = << >>
    /\ order_row \in OrderRows
    /\ return_log = << >>
    /\ manager = NoManager
    /\ handlers = << >>
    /\ executions = << >>
    /\ tools_used = << >>
    /\ sessions = << >>

\* One call of initiate_return for the order, from start to end.
InitiateReturnCall ==
    /\ Len(return_log) < MaxReturnCalls
    /\ \E a \in ReturnArgs, fault \in DbFaults, customer_found \in BOOLEAN :
         LET r == InitiateReturnOn(a, fault, customer_found, order_row)
         IN  /\ order_row' = r.row
             /\ return_log' = Append(return_log, r.outcome)
             /\ exec' = [status |-> "returned", name |-> "initiate_return",
                         args |-> a,
                         view |-> [fault |-> fault, customer |-> customer_found],
                         result |-> r.outcome]
    /\ UNCHANGED << agent_vars, user_email, current_order_id, tool_call,
                    user_message, manager, handlers, executions, tools_used, sessions >>

NextReturn == InitiateReturnCall

SpecReturn == InitReturn /\ [][NextReturn]_vars

\* ------------------------------------ WebSocket connections of one session id
MaxConnections == 2
MaxAgents == 5

Connections == 1..MaxConnections

\* A websocket_endpoint coroutine: where it is, and the AgentController its
\* process_message call runs on (0: none).
Handler(at, agent) == [pc |-> at, agent |-> agent]

agent_rest == << anthropic_client, openai_client, via_ws, db, active_provider,
                 conversation_history, openai_messages, turn_count, pc, loop_turn,
                 batch, chunks, sent, anthropic_calls, openai_calls, failed, raised,
                 reissues, exec_calls, start_provider, switches, last_response,
                 user_email, current_order_id, tool_call, exec, user_message,
                 order_row, return_log, executions, tools_used, sessions >>

InitSessions ==
    /\ AgentAtRest
    /\ user_email = Null
    /\ current_order_id = Null
    /\ tool_call = NoToolCall
    /\ exec = NoExec
    /\ user_message = << >>
    /\ order_row = NoOrderRow
    /\ return_log = << >>
    /\ manager = NoManager
    /\ handlers = [c \in Connections |-> Handler("closed", 0)]
    /\ executions = << >>
    /\ tools_used = << >>
    /\ sessions = << >>

\* A client opens /ws/chat/{session_id}: ConnectionManager.connect stores the
\* socket and a new AgentController under the session id, whatever was there.
Connect(c) ==
    /\ handlers[c].pc = "closed"
    /\ manager.created < MaxAgents
    /\ manager' = [active_connections |-> c,
                   agents |-> manager.created + 1,
                   created |-> manager.created + 1,
                   session_users |-> Null]
    /\ handlers' = [handlers EXCEPT ![c] = Handler("receiving", 0)]
    /\ UNCHANGED agent_rest

\* receive_json returns a non-empty 'message': the handler takes the agent
\* stored under the session id, or makes one when there is none, and starts
\* iterating process_message on it.
ReceiveMessage(c) ==
    /\ handlers[c].pc = "receiving"
    /\ IF manager.agents # 0
       THEN /\ handlers' = [handlers EXCEPT ![c] = Handler("processing", manager.agents)]
            /\ UNCHANGED manager
       ELSE /\ manager.created < MaxAgents
            /\ manager' = [manager EXCEPT !.agents = manager.created + 1,
                                          !.created = manager.created + 1]
            /\ handlers' = [handlers EXCEPT
                               ![c] = Handler("processing", manager.created + 1)]
    /\ UNCHANGED agent_rest

\* process_message is exhausted or raised: message_complete or error, typing
\* off, back to receive_json.
FinishMessage(c) ==
    /\ handlers[c].pc = "processing"
    /\ handlers' = [handlers EXCEPT ![c] = Handler("receiving", 0)]
    /\ UNCHANGED << agent_rest, manager >>

\* ConnectionManager.disconnect: the entries of the session id are deleted.
Disconnected == [manager EXCEPT !.active_connections = 0, !.agents = 0,
                                !.session_users = Absent]

\* receive_json raises WebSocketDisconnect.
Disconnect(c) ==
    /\ handlers[c].pc = "receiving"
    /\ manager' = Disconnected
    /\ handlers' = [handlers EXCEPT ![c] = Handler("closed", 0)]
    /\ UNCHANGED agent_rest

\* The socket the events are sent to is closed while a message is processed:
\* the send raises out of the handler's loop.
DisconnectWhileProcessing(c) ==
    /\ handlers[c].pc = "processing"
    /\ manager.active_connections = c
    /\ manager' = Disconnected
    /\ handlers' = [handlers EXCEPT ![c] = Handler("closed", 0)]
    /\ UNCHANGED agent_rest

NextSessions ==
    \E c \in Connections :
        \/ Connect(c)
        \/ ReceiveMessage(c)
        \/ FinishMessage(c)
        \/ Disconnect(c)
        \/ DisconnectWhileProcessing(c)

SpecSessions == InitSessions /\ [][NextSessions]_vars

\* --------------------------- the tool calls of one message, followed one by one
\* Most tool calls of one message that do not return a payload.
MaxToolFailures == 1

\* What execute_tool does for one call: it returns a payload, returns an
\* error payload, or raises.
ToolOutcomes == {Payload, ErrorPayload, Raised}

\* The try/except around execute_tool in both loops: what the handler returned,
\* or {"error": ..., "details": str(e)} for what it raised.
ErrorWithDetails == "error_with_details"

ExecutionResult(outcome) == IF outcome = Raised THEN ErrorWithDetails ELSE outcome

Failures(ex) == Cardinality({i \in 1..Len(ex) : ex[i].outcome # Payload})

\* Outcomes of the n calls of one response.
OutcomeVectors(n) ==
    { os \in [1..n -> ToolOutcomes] :
        Failures(executions) + Cardinality({i \in 1..n : os[i] # Payload}) <= MaxToolFailures }

Executed(ids, os) == [i \in 1..Len(ids) |-> [id |-> ids[i], outcome |-> os[i]]]

\* Variant of AnthropicToolsExec in which what execute_tool raises leaves the
\* loop: the calls before the raising one are answered, then the invocation
\* ends by the exception.
AnthropicToolsExecAborts ==
    /\ InAnthropicLoop
    /\ db
    /\ last_response' = "tools"
    /\ \E os \in OutcomeVectors(batch) :
         LET ids == CallIds("anthropic", turn_count, loop_turn + 1, batch)
             rs == [i \in 1..batch |-> ExecutionResult(os[i])]
             bad == {i \in 1..batch : os[i] = Raised}
         IN  IF bad = {}
             THEN /\ conversation_history' =
                         conversation_history \o << AssistantMsg(ids), ToolResultsMsg(ids, rs) >>
                  /\ Continues(AnthropicToolChunks(ids), "anthropic")
                  /\ executions' = executions \o Executed(ids, os)
                  /\ exec_calls' = exec_calls + batch
                  /\ UNCHANGED raised
             ELSE LET k == CHOOSE i \in bad : \A j \in bad : i <= j
                  IN  /\ conversation_history' = Append(conversation_history, AssistantMsg(ids))
                      /\ executions' = executions \o SubSeq(Executed(ids, os), 1, k)
                      /\ exec_calls' = exec_calls + k
                      /\ Raises
    /\ tools_used' = UseTool(tools_used, CalledTool)
    /\ anthropic_calls' = anthropic_calls + 1
    /\ loop_turn' = loop_turn + 1
    /\ UNCHANGED << static, current_order_id, db, active_provider, openai_messages, turn_count,
                    openai_calls, failed, reissues, start_provider, switches >>

\* _process_with_anthropic, a response that requests tools, a database session
\* being attached: every call is executed, what it raises is turned into a
\* result, and one user message with all the results is appended.
AnthropicToolsExec ==
    /\ InAnthropicLoop
    /\ db
    /\ last_response' = "tools"
    /\ \E os \in OutcomeVectors(batch) :
         LET ids == CallIds("anthropic", turn_count, loop_turn + 1, batch)
             rs == [i \in 1..batch |-> ExecutionResult(os[i])]
         IN  /\ conversation_history' =
                    conversation_history \o << AssistantMsg(ids), ToolResultsMsg(ids, rs) >>
             /\ Continues(AnthropicToolChunks(ids), "anthropic")
             /\ executions' = executions \o Executed(ids, os)
             /\ exec_calls' = exec_calls + batch
             /\ UNCHANGED raised
    /\ tools_used' = UseTool(tools_used, CalledTool)
    /\ anthropic_calls' = anthropic_calls + 1
    /\ loop_turn' = loop_turn + 1
    /\ UNCHANGED << static, current_order_id, db, active_provider, openai_messages, turn_count,
                    openai_calls, failed, reissues, start_provider, switches >>

\* _process_with_openai, the same: one role="tool" message per call.
OpenAIToolsExec ==
    /\ InOpenAILoop
    /\ db
    /\ last_response' = "tools"
    /\ \E os \in OutcomeVectors(batch) :
         LET ids == CallIds("openai", turn_count, loop_turn + 1, batch)
         IN  /\ openai_messages' =
                    openai_messages \o << AssistantMsg(ids) >>
                    \o [i \in 1..batch |-> ToolMsg(ids[i], ExecutionResult(os[i]))]
             /\ Continues(OpenAIToolChunks(ids), "openai")
             /\ executions' = executions \o Executed(ids, os)
    /\ tools_used' = UseTool(tools_used, CalledTool)
    /\ openai_calls' = openai_calls + 1
    /\ loop_turn' = loop_turn + 1
    /\ exec_calls' = exec_calls + batch
    /\ UNCHANGED << static, current_order_id, db, active_provider, conversation_history, turn_count,
                    anthropic_calls, failed, raised, reissues,
                    start_provider, switches >>

\* The first message of a conversation has been handed to the loop of the
\* active provider (the fallback provider is the active one when an earlier
\* conversation of the agent switched to it), a database session being attached.
InitToolLoop ==
    /\ anthropic_client = TRUE
    /\ openai_client = TRUE
    /\ via_ws \in BOOLEAN
    /\ db = TRUE
    /\ active_provider \in {"anthropic", "openai"}
    /\ conversation_history =
          (IF active_provider = "anthropic" THEN << UserText(1) >> ELSE << >>)
    /\ openai_messages =
          (IF active_provider = "openai" THEN BeginOpenAI(<< >>, 1) ELSE << >>)
    /\ turn_count = 1
    /\ pc = active_provider
    /\ loop_turn = 0
    /\ batch \in 1..MaxToolCalls
    /\ chunks = << >>
    /\ sent = TypingOn
    /\ anthropic_calls = 0
    /\ openai_calls = 0
    /\ failed = {}
    /\ raised = FALSE
    /\ reissues = 0
    /\ exec_calls = 0
    /\ start_provider = active_provider
    /\ switches = 0
    /\ last_response = "none"
    /\ user_email = Null
    /\ current_order_id = Null
    /\ tool_call = NoToolCall
    /\ exec = NoExec
    /\ user_message = << >>
    /\ order_row = NoOrderRow
    /\ return_log = << >>
    /\ manager = NoManager
    /\ handlers = << >>
    /\ executions = << >>
    /\ tools_used = << >>
    /\ sessions = << >>

NextToolLoop ==
    \/ AnthropicText
    \/ AnthropicToolsExec
    \/ AnthropicExhausted
    \/ OpenAIText
    \/ OpenAIToolsExec
    \/ OpenAIExhausted

SpecToolLoop == InitToolLoop /\ [][NextToolLoop]_vars

\* ------------------------------------------- the user of one connected session
UserEmails == {Null, "a@example.com", "b@example.com"}

\* Variant of SetSessionUser that never resets the agent.
SetSessionUserNoReset(e) ==
    /\ pc \in {"idle", "done"}
    /\ manager' = [manager EXCEPT !.session_users = e]
    /\ user_email' = (IF manager.agents # 0 THEN e ELSE user_email)
    /\ UNCHANGED << conversation_history, openai_messages, turn_count,
                    current_order_id, tools_used >>
    /\ UNCHANGED << anthropic_client, openai_client, via_ws, db, active_provider,
                    pc, loop_turn, batch, chunks, sent, anthropic_calls,
                    openai_calls, failed, raised, reissues, exec_calls,
                    start_provider, switches, last_response, tool_call, exec,
                    user_message, order_row, return_log, handlers, executions,
                    sessions >>

\* ConnectionManager.set_session_user(session_id, e), called by the handler
\* for a 'set_user' message and for a 'message' that carries an email: the
\* agent is reset when the session has a user and e is another one; then the
\* user is stored and handed to the agent.
SetSessionUser(e) ==
    /\ pc \in {"idle", "done"}
    /\ LET current_user ==
               IF manager.session_users = Absent THEN Null ELSE manager.session_users
       IN  IF current_user # Null /\ e # current_user /\ manager.agents # 0
           THEN /\ conversation_history' = << >>
                /\ openai_messages' = << >>
                /\ turn_count' = 0
                /\ current_order_id' = Null
                /\ tools_used' = << >>
           ELSE UNCHANGED << conversation_history, openai_messages, turn_count,
                             current_order_id, tools_used >>
    /\ manager' = [manager EXCEPT !.session_users = e]
    /\ user_email' = (IF manager.agents # 0 THEN e ELSE user_email)
    /\ UNCHANGED << anthropic_client, openai_client, via_ws, db, active_provider,
                    pc, loop_turn, batch, chunks, sent, anthropic_calls,
                    openai_calls, failed, raised, reissues, exec_calls,
                    start_provider, switches, last_response, tool_call, exec,
                    user_message, order_row, return_log, handlers, executions,
                    sessions >>

\* process_message with the Anthropic branch taken, for a text that names an
\* order: the order becomes the session's current order.
StartAnthropicNamingOrder ==
    /\ pc \in {"idle", "done"}
    /\ turn_count < MaxMsgs
    /\ anthropic_client /\ active_provider = "anthropic"
    /\ turn_count' = turn_count + 1
    /\ \E o \in SessionOrders \ {Null} : current_order_id' = o
    /\ db' = (via_ws \/ db)
    /\ start_provider' = active_provider
    /\ anthropic_calls' = 0
    /\ openai_calls' = 0
    /\ failed' = {}
    /\ raised' = FALSE
    /\ reissues' = 0
    /\ exec_calls' = 0
    /\ switches' = 0
    /\ last_response' = "none"
    /\ loop_turn' = 0
    /\ conversation_history' = Append(conversation_history, UserText(turn_count + 1))
    /\ chunks' = << >>
    /\ sent' = TypingOn
    /\ pc' = "anthropic"
    /\ UNCHANGED << static, executions, tools_used, active_provider, openai_messages >>

\* A connection has just been opened for the session id: connect has stored
\* the socket, a new agent and no user.
InitUsers ==
    /\ anthropic_client = TRUE
    /\ openai_client = FALSE
    /\ via_ws = TRUE
    /\ db = FALSE
    /\ active_provider = "anthropic"
    /\ conversation_history = << >>
    /\ openai_messages = << >>
    /\ turn_count = 0
    /\ pc = "idle"
    /\ loop_turn = 0
    /\ batch = 1
    /\ chunks = << >>
    /\ sent = << >>
    /\ anthropic_calls = 0
    /\ openai_calls = 0
    /\ failed = {}
    /\ raised = FALSE
    /\ reissues = 0
    /\ exec_calls = 0
    /\ start_provider = "anthropic"
    /\ switches = 0
    /\ last_response = "none"
    /\ user_email = Null
    /\ current_order_id = Null
    /\ tool_call = NoToolCall
    /\ exec = NoExec
    /\ user_message = << >>
    /\ order_row = NoOrderRow
    /\ return_log = << >>
    /\ manager = [active_connections |-> 1, agents |-> 1, created |-> 1,
                  session_users |-> Null]
    /\ handlers = << >>
    /\ executions = << >>
    /\ tools_used = << >>
    /\ sessions = << >>

NextUsers ==
    \/ \E e \in UserEmails : SetSessionUser(e)
    \/ StartAnthropic
    \/ StartAnthropicNamingOrder
    \/ AnthropicText
    \/ AnthropicTools
    \/ AnthropicExhausted

SpecUsers == InitUsers /\ [][NextUsers]_vars

\* ----------------------- two sessions that receive messages with the same texts
\* Most messages a session receives before the one without an email.
MaxEarlier == 2

TwoSessions == {1, 2}

\* The tool call the model makes while the message without an email is
\* processed, the same in both sessions.
AnonCalls ==
    { [status |-> "requested", path |-> "anthropic", name |-> n, raw |-> RawDict(a),
       input |-> EmptyArgs] :
        n \in {"search_orders", "get_order_status", "get_policy_info"},
        a \in {EmptyArgs, [EmptyArgs EXCEPT !["email"] = "model@example.com"]} }

\* A session right after connect: the manager's user entry, the agent's
\* user_email and current_order_id, the messages received (a text by the
\* order it names, Null for none), the email set last for the session (by a
\* message that carried one or by set_user), and the enriched input of the
\* tool call made for the message without email.
NewSession ==
    [stage |-> "open", session_user |-> Null, user_email |-> Null,
     current_order_id |-> Null, texts |-> << >>, supplied |-> Null,
     tool_input |-> EmptyArgs]

\* websocket_endpoint and process_message for a 'message' whose user_email is
\* e (Null: none) and whose text names the order o (Null: none):
\* set_session_user when e is given, then the agent's user and current order.
EarlierMessage(s, e, o) ==
    /\ sessions[s].stage = "open"
    /\ Len(sessions[s].texts) < MaxEarlier
    /\ LET x == sessions[s]
           reset == ~Falsy(e) /\ x.session_user # Null /\ e # x.session_user
           kept_order == IF reset THEN Null ELSE x.current_order_id
       IN  sessions' = [sessions EXCEPT ![s] =
              [x EXCEPT !.session_user = IF ~Falsy(e) THEN e ELSE @,
                        !.user_email = IF ~Falsy(e) THEN e ELSE @,
                        !.current_order_id = IF o # Null THEN o ELSE kept_order,
                        !.texts = Append(@, o),
                        !.supplied = IF ~Falsy(e) THEN e ELSE @]]
    /\ UNCHANGED << agent_vars, user_email, current_order_id, tool_call, exec,
                    user_message, order_row, return_log, manager, handlers,
                    executions, tools_used >>

\* websocket_endpoint for a 'set_user' message with the email e (Null: none):
\* set_session_user is called whatever e is.
EarlierSetUser(s, e) ==
    /\ sessions[s].stage = "open"
    /\ Len(sessions[s].texts) < MaxEarlier
    /\ LET x == sessions[s]
           reset == x.session_user # Null /\ e # x.session_user
       IN  sessions' = [sessions EXCEPT ![s] =
              [x EXCEPT !.session_user = e,
                        !.user_email = e,
                        !.current_order_id = IF reset THEN Null ELSE @,
                        !.texts = Append(@, "set_user"),
                        !.supplied = e]]
    /\ UNCHANGED << agent_vars, user_email, current_order_id, tool_call, exec,
                    user_message, order_row, return_log, manager, handlers,
                    executions, tools_used >>

\* Variant of MessageWithoutEmail in which process_message takes the absent
\* email of the message as the agent's user.
MessageWithoutEmailForgets(s) ==
    /\ sessions[s].stage = "open"
    /\ LET x == sessions[s]
       IN  sessions' = [sessions EXCEPT ![s] =
              [x EXCEPT !.stage = "enriched",
                        !.user_email = Null,
                        !.tool_input =
                            InjectEmail(tool_call.name,
                                InjectOrderContext(tool_call.name,
                                    AnthropicInput(tool_call.raw), x.current_order_id),
                                Null)]]
    /\ UNCHANGED << agent_vars, user_email, current_order_id, tool_call, exec,
                    user_message, order_row, return_log, manager, handlers,
                    executions, tools_used >>

\* A 'message' without user_email whose text names no order: the handler
\* skips set_session_user, process_message keeps self.user_email, and the
\* tool call of the model is enriched from the agent's context.
MessageWithoutEmail(s) ==
    /\ sessions[s].stage = "open"
    /\ LET x == sessions[s]
       IN  sessions' = [sessions EXCEPT ![s] =
              [x EXCEPT !.stage = "enriched",
                        !.tool_input =
                            InjectEmail(tool_call.name,
                                InjectOrderContext(tool_call.name,
                                    AnthropicInput(tool_call.raw), x.current_order_id),
                                x.user_email)]]
    /\ UNCHANGED << agent_vars, user_email, current_order_id, tool_call, exec,
                    user_message, order_row, return_log, manager, handlers,
                    executions, tools_used >>

InitTwoSessions ==
    /\ AgentAtRest
    /\ user_email = Null
    /\ current_order_id = Null
    /\ tool_call \in AnonCalls
    /\ exec = NoExec
    /\ user_message = << >>
    /\ order_row = NoOrderRow
    /\ return_log = << >>
    /\ manager = NoManager
    /\ handlers = << >>
    /\ executions = << >>
    /\ tools_used = << >>
    /\ sessions = [s \in TwoSessions |-> NewSession]

NextTwoSessions ==
    \E s \in TwoSessions :
        \/ \E e \in UserEmails, o \in SessionOrders : EarlierMessage(s, e, o)
        \/ \E e \in UserEmails : EarlierSetUser(s, e)
        \/ MessageWithoutEmail(s)

SpecTwoSessions == InitTwoSessions /\ [][NextTwoSessions]_vars

\* ------------------- initiate_return for one order from two sessions at a time
\* Each session runs the handler on a database session of its own
\* (AsyncSessionLocal per message); a handler gives way at each await.
RaceArgs ==
    [order_id : {OrderNumber},
     reason : {"damaged", "changed_mind"},
     email : {"user@example.com", "other@example.com"}]

\* A handler that has not been called: its arguments, the order object its
\* database session loaded, and what the call returned.
NoCall == [at |-> "idle", args |-> EmptyArgs, order |-> NoOrderRow, outcome |-> ""]

\* The tool call reaches _initiate_return with all three arguments.
CallInitiateReturn(s, a) ==
    /\ sessions[s].at = "idle"
    /\ sessions' = [sessions EXCEPT ![s] = [@ EXCEPT !.at = "called", !.args = a]]
    /\ UNCHANGED << agent_vars, user_email, current_order_id, tool_call, exec,
                    user_message, order_row, return_log, manager, handlers,
                    executions, tools_used >>

\* await db.execute(select(Order)...): the session loads the row as it is.
SelectOrder(s) ==
    /\ sessions[s].at = "called"
    /\ sessions' = [sessions EXCEPT ![s] = [@ EXCEPT !.at = "order_loaded",
                                                     !.order = order_row]]
    /\ UNCHANGED << agent_vars, user_email, current_order_id, tool_call, exec,
                    user_message, order_row, return_log, manager, handlers,
                    executions, tools_used >>

\* await db.execute(select(Customer)...), then the checks on the loaded
\* order: an error payload is returned, or the order object is changed and
\* the handler goes on to the commit.
SelectCustomerAndCheck(s) ==
    /\ sessions[s].at = "order_loaded"
    /\ LET x == sessions[s]
           r == InitiateReturnOn(x.args, "none", TRUE, x.order)
       IN  IF r.outcome = "success"
           THEN /\ sessions' = [sessions EXCEPT ![s] =
                                   [x EXCEPT !.at = "committing", !.order = r.row]]
                /\ UNCHANGED return_log
           ELSE /\ sessions' = [sessions EXCEPT ![s] =
                                   [x EXCEPT !.at = "returned", !.outcome = r.outcome]]
                /\ return_log' = Append(return_log, r.outcome)
    /\ UNCHANGED << agent_vars, user_email, current_order_id, tool_call, exec,
                    user_message, order_row, manager, handlers,
                    executions, tools_used >>

\* await db.commit(): the changed columns of the session's order object are
\* written to the row, whatever the row holds by now, and the call returns
\* success.
Commit(s) ==
    /\ sessions[s].at = "committing"
    /\ LET x == sessions[s]
       IN  /\ order_row' = x.order
           /\ sessions' = [sessions EXCEPT ![s] =
                              [x EXCEPT !.at = "returned", !.outcome = "success"]]
           /\ return_log' = Append(return_log, "success")
    /\ UNCHANGED << agent_vars, user_email, current_order_id, tool_call, exec,
                    user_message, manager, handlers, executions, tools_used >>

InitRace ==
    /\ AgentAtRest
    /\ user_email = Null
    /\ current_order_id = Null
    /\ tool_call = NoToolCall
    /\ exec = NoExec
    /\ user_message = << >>
    /\ order_row \in OrderRows
    /\ return_log = << >>
    /\ manager = NoManager
    /\ handlers = << >>
    /\ executions = << >>
    /\ tools_used = << >>
    /\ sessions = [s \in TwoSessions |-> NoCall]

NextRace ==
    \E s \in TwoSessions :
        \/ \E a \in RaceArgs : CallInitiateReturn(s, a)
        \/ SelectOrder(s)
        \/ SelectCustomerAndCheck(s)
        \/ Commit(s)

SpecRace == InitRace /\ [][NextRace]_vars

\* ===================================================================== claims
CountType(cs, t) == Cardinality({i \in 1..Len(cs) : cs[i].type = t})

ErrorChunks == CountType(chunks, "error")

Terminals == Cardinality({i \in 1..Len(sent) : sent[i] \in {"message_complete", "error"}})

NonSystem(ms) == Cardinality({i \in 1..Len(ms) : ms[i].role # "system"})

Occurrences(ms, e) == Cardinality({i \in 1..Len(ms) : ms[i] = e})

Ended == pc = "done"

\* Every tool result of h follows, in h, an assistant message that holds the
\* tool call with the same id.
Paired(h) ==
    \A i \in 1..Len(h) :
        h[i].kind = "tool_result" =>
            \A k \in 1..Len(h[i].ids) :
                \E j \in 1..(i - 1) :
                    /\ h[j].role = "assistant"
                    /\ \E l \in 1..Len(h[j].ids) : h[j].ids[l] = h[i].ids[k]

\* C1: within one process_message invocation the provider calls (Anthropic
\* stream calls plus OpenAI completion calls) number at most max_turns.
C1_BoundedTurns == anthropic_calls + openai_calls <= max_turns

\* C2: after an invocation that completed without an error chunk, the
\* conversation history holds at most 20 messages and openai_messages at most
\* 20 entries that are not the system entry.
C2_HistoryBound ==
    (Ended /\ ~raised /\ ErrorChunks = 0) =>
        /\ Len(conversation_history) <= HistoryWindow
        /\ NonSystem(openai_messages) <= HistoryWindow

\* C3: for a message handled by the WebSocket endpoint the caller is sent no
\* terminal event (message_complete or error) while the message is being
\* processed and exactly one when it has been processed.
C3_OneTerminalEvent ==
    via_ws => Terminals = (IF Ended THEN 1 ELSE 0)

C3_Witness ==
    /\ via_ws /\ Ended
    /\ failed = {"anthropic", "openai"}
    /\ ErrorChunks = 1
    /\ Terminals = 1

\* C4: within one invocation active_provider changes at most once, and the
\* only change that ever occurs is from anthropic to openai.
C4_AtMostOneFallback ==
    [][ /\ switches' <= 1
        /\ (active_provider' # active_provider =>
                active_provider = "anthropic" /\ active_provider' = "openai") ]_vars

C4_Witness == Ended /\ switches = 1 /\ openai_calls > 0 /\ "openai" \in failed

\* C5: after a provider API error of the primary the user text of the message
\* is handed to the fallback exactly once in the same invocation; when the
\* fallback raises a provider API error too, or no fallback client exists,
\* exactly one error chunk is emitted, it is the last chunk, and the
\* invocation has ended, so no provider call follows.
C5_FallbackOnce ==
    /\ ErrorChunks >= 1 => Ended
    /\ "anthropic" \in failed =>
        /\ reissues = (IF openai_client THEN 1 ELSE 0)
        /\ Occurrences(openai_messages, UserText(turn_count)) <= 1
        /\ (pc = "openai" /\ loop_turn = 0) =>
               openai_messages[Len(openai_messages)] = UserText(turn_count)
        /\ ("openai" \in failed \/ ~openai_client) =>
               /\ Ended
               /\ ErrorChunks = 1
               /\ chunks[Len(chunks)].type = "error"
               /\ openai_calls <= max_turns

C5_Witness ==
    /\ Ended /\ failed = {"anthropic", "openai"}
    /\ anthropic_calls > 1 /\ openai_calls > 1
    /\ reissues = 1 /\ ErrorChunks = 1

\* C7: at the end of an invocation every tool result kept in a history is
\* preceded in that history by the assistant message holding its tool call.
C7_ResultsFollowCalls ==
    Ended => Paired(conversation_history) /\ Paired(openai_messages)

C10_FallbackSticks ==
    [][ /\ (active_provider = "openai" => active_provider' = "openai")
        /\ (start_provider' = "openai" =>
                /\ anthropic_calls' = 0
                /\ (openai_client /\ pc' = "done") => openai_calls' >= 1) ]_vars

C10_Witness ==
    /\ start_provider = "openai" /\ anthropic_client /\ openai_client
    /\ Ended /\ ~raised /\ failed = {} /\ openai_calls >= 2

\* C6: execute_tool never lets an exception out: for every tool name, every
\* argument map and every state of the database its caller receives a result
\* dictionary, a success payload or an {error: ...} payload.
C6_ToolFailureContained ==
    exec.status = "returned" => exec.result \in {Payload, ErrorPayload}

\* C8: enrichment leaves every argument the model supplied with a non-empty
\* value as it was, on the Anthropic and on the OpenAI path.
C8_NoOverwrite ==
    tool_call.status = "enriched" =>
        \A k \in ArgKeys :
            (tool_call.raw.shape = "dict" /\ ~Falsy(tool_call.raw.args[k])) =>
                tool_call.input[k] = tool_call.raw.args[k]

C8_Witness ==
    /\ tool_call.status = "enriched" /\ tool_call.path = "openai"
    /\ tool_call.name = "initiate_return"
    /\ user_email = "user@example.com" /\ current_order_id = "ORD-2024-00001"
    /\ tool_call.raw.args["email"] = "model@example.com"
    /\ tool_call.raw.args["order_id"] = ""
    /\ tool_call.input["email"] = "model@example.com"
    /\ tool_call.input["order_id"] = "ORD-2024-00001"

\* C11: process_message on a text that contains a match of the order-id
\* pattern sets current_order_id to the leftmost match, uppercased, and on a
\* text without a match leaves current_order_id as it was; this is done while
\* no provider call of the invocation has been made.
C11_OrderExtraction ==
    [][ (pc = "idle" /\ pc' = "observed") =>
            LET t == user_message
                hits == {i \in 1..Len(t) : MatchAt(t, i)}
            IN  /\ anthropic_calls' = 0 /\ openai_calls' = 0
                /\ IF hits = {}
                   THEN current_order_id' = current_order_id
                   ELSE LET first == CHOOSE i \in hits : \A j \in hits : i <= j
                        IN  /\ Len(current_order_id') = PatternLen
                            /\ \A k \in 1..PatternLen :
                                   /\ current_order_id'[k] = Upper(t[first + k - 1])
                                   /\ current_order_id'[k] \notin {"o", "r", "d"} ]_vars

C11_Witness ==
    /\ pc = "observed"
    /\ user_message =
          << " ", "x", "o","R","d","-","2","0","2","4","-","0","0","0","0", "7" >>
    /\ current_order_id =
          << "O","R","D","-","2","0","2","4","-","0","0","0","0","7" >>

\* C12: no failure of a provider call, of a provider stream or of the decoding
\* of tool-call arguments leaves process_message as an exception: every
\* invocation ends normally, having yielded at most one error chunk.
C12_NoEscape ==
    Ended => (~raised /\ ErrorChunks <= 1)

\* C13: when both providers have failed with provider errors while a message
\* was processed, process_message has yielded the apology as an error chunk
\* and, for a session served over the WebSocket, an event of type error has
\* been sent to the client.
C13_BothFailSurfaced ==
    (Ended /\ failed = {"anthropic", "openai"}) =>
        /\ \E i \in 1..Len(chunks) : chunks[i] = ErrorChunk(turn_count, "both_unavailable")
        /\ via_ws => \E i \in 1..Len(sent) : sent[i] = "error"

\* C14: with neither provider client configured, every invocation ends at once
\* with exactly one error chunk (the 'No AI provider configured' one), no
\* provider call is made, and both histories stay empty.
C14_NoProviderConfigured ==
    (~anthropic_client /\ ~openai_client) =>
        /\ pc \in {"idle", "done"}
        /\ anthropic_calls = 0 /\ openai_calls = 0
        /\ conversation_history = << >> /\ openai_messages = << >>
        /\ Ended => /\ Len(chunks) = 1
                    /\ chunks[1].type = "error" /\ chunks[1].content = "no_provider"
                    /\ ~raised

C14_Witness ==
    /\ ~anthropic_client /\ ~openai_client
    /\ Ended /\ turn_count = 2 /\ ErrorChunks = 1

\* C15: a model that requests tool calls in every response does not keep
\* process_message running: every step of a provider loop ends the invocation,
\* makes the loop's next provider call, or is the one hand-over to the
\* fallback; a loop makes no call beyond its 10th; and the step taken after
\* the 10th call ends the invocation normally, with the loop's history
\* trimmed to the window, no error chunk, no exception and no further call.
C15_BudgetExhausted ==
    [][ /\ loop_turn' <= max_turns
        /\ pc \in {"anthropic", "openai"} =>
               \/ pc' = "done"
               \/ pc' = pc /\ loop_turn' = loop_turn + 1
               \/ pc = "anthropic" /\ pc' = "openai" /\ loop_turn' = 0 /\ switches' = 1
        /\ (pc \in {"anthropic", "openai"} /\ loop_turn = max_turns) =>
               /\ pc' = "done" /\ ~raised'
               /\ chunks' = chunks /\ ErrorChunks = 0
               /\ anthropic_calls' = anthropic_calls /\ openai_calls' = openai_calls
               /\ (pc = "anthropic" => /\ anthropic_calls = max_turns
                                       /\ Len(conversation_history') <= HistoryWindow)
               /\ (pc = "openai" => /\ openai_calls = max_turns
                                    /\ NonSystem(openai_messages') <= HistoryWindow) ]_vars

C15_Witness ==
    /\ Ended /\ ~raised /\ failed = {} /\ turn_count = 1
    /\ last_response = "none" /\ anthropic_calls = max_turns
    /\ Len(conversation_history) = HistoryWindow
    /\ conversation_history[HistoryWindow].kind = "tool_result"
    /\ ErrorChunks = 0

\* C16, as stated: in a sequence of initiate_return calls for one order at
\* most one call succeeds, and every call made after a successful one returns
\* 'A return has already been requested for this order' and leaves the order
\* row as it was.
C16_ReturnOnce ==
    [][ LET n == Len(return_log)
        IN  (Len(return_log') = n + 1) =>
                /\ Occurrences(return_log', "success") <= 1
                /\ Occurrences(return_log, "success") > 0 =>
                       /\ return_log'[n + 1] = "already_requested"
                       /\ order_row' = order_row ]_vars

\* C16, amended: at most one call succeeds; a call made after a successful
\* one never succeeds and leaves the order row as it was; when it is made
\* with order_id, reason and the email of the order's customer and the
\* database answers its queries, it returns 'A return has already been
\* requested for this order'.
C16_ReturnOnceAmended ==
    [][ LET n == Len(return_log)
        IN  (Len(return_log') = n + 1) =>
                /\ Occurrences(return_log', "success") <= 1
                /\ Occurrences(return_log, "success") > 0 =>
                       /\ return_log'[n + 1] # "success"
                       /\ order_row' = order_row
                       /\ ( /\ exec'.args.order_id = OrderNumber /\ ~Falsy(exec'.args.reason)
                            /\ Lower(exec'.args.email) = OwnerEmail
                            /\ exec'.view.fault \in {"none", "commit"}
                            /\ exec'.view.customer ) =>
                              return_log'[n + 1] = "already_requested" ]_vars

C16_Witness ==
    /\ return_log = << "success", "already_requested", "email_mismatch" >>
    /\ order_row.status = "returned" /\ order_row.return_requested
    /\ order_row.return_reason = "damaged"
    /\ order_row.refund_amount = order_row.total_amount

\* C17: at no time are two process_message invocations in progress on the
\* same AgentController of a session id.
C17_OneInvocationPerAgent ==
    \A c1, c2 \in DOMAIN handlers :
        ( /\ c1 # c2
          /\ handlers[c1].pc = "processing"
          /\ handlers[c2].pc = "processing" ) =>
            handlers[c1].agent # handlers[c2].agent

\* C18: an invocation of an agent without a database session in which a
\* response of the model requested a tool has yielded at least one error
\* chunk when it ends.
C18_NoDbYieldsError ==
    (Ended /\ ~raised /\ ~db /\ CountType(chunks, "tool_use") > 0) => ErrorChunks >= 1

\* Every assistant message of h that holds tool calls is followed at once by
\* the message holding their results.
Answered(h) ==
    \A i \in 1..Len(h) :
        (h[i].role = "assistant" /\ h[i].ids # NoIds) =>
            /\ i < Len(h)
            /\ h[i + 1].kind = "tool_result" /\ h[i + 1].ids = h[i].ids

\* C19: the step that falls back to the secondary provider removes from
\* conversation_history nothing, or only its last message when that is the
\* user text of the current invocation and no response to it has been
\* recorded; afterwards every assistant tool call of the history still has
\* its tool result.
C19_FallbackPop ==
    [][ ("anthropic" \notin failed /\ "anthropic" \in failed') =>
            LET h == conversation_history
            IN  /\ \/ conversation_history' = h
                   \/ /\ Len(h) > 0
                      /\ conversation_history' = SubSeq(h, 1, Len(h) - 1)
                      /\ h[Len(h)] = UserText(turn_count)
                      /\ loop_turn = 0
                /\ Answered(conversation_history') ]_vars

\* The user message m of the session was answered: h holds its text and,
\* after it, an assistant message without tool calls.
Completed(h, m) ==
    \E i \in 1..Len(h) :
        /\ h[i] = UserText(m)
        /\ \E j \in (i + 1)..Len(h) : h[j] = AssistantMsg(NoIds)

\* C20: the messages handed to the fallback provider hold the earlier
\* completed exchanges of the session: while the OpenAI loop runs, the text
\* of every earlier user message that conversation_history records as
\* answered is in openai_messages too, as long as both histories together
\* fit the trimming window.
C20_HistoryShared ==
    ( /\ pc = "openai"
      /\ Len(conversation_history) + Len(openai_messages) <= HistoryWindow ) =>
        \A m \in 1..(turn_count - 1) :
            Completed(conversation_history, m) =>
                \E k \in 1..Len(openai_messages) : openai_messages[k] = UserText(m)

\* Provider calls made so far in the current invocation.
ProviderCalls == anthropic_calls + openai_calls

RaisedInTurn(t) ==
    \E i \in 1..Len(executions) :
        executions[i].outcome = Raised /\ executions[i].id[3] = t

\* The results a history holds under the id of one tool call.
ResultsUnder(h, id) ==
    { r \in {Payload, ErrorPayload, ErrorWithDetails, "executed", "db_unavailable"} :
        \E j \in 1..Len(h) :
            /\ h[j].kind = "tool_result"
            /\ \E i \in 1..Len(h[j].ids) : h[j].ids[i] = id /\ h[j].results[i] = r }

\* A step in which a call of execute_tool raises stays in the loop, executes
\* every call of the response in order, and for the raising call appends the
\* structured error under its id and yields a tool_result chunk.
C21_Contained ==
    LET new == SubSeq(executions', Len(executions) + 1, Len(executions'))
        h == IF pc = "anthropic" THEN conversation_history' ELSE openai_messages'
    IN  (\E i \in 1..Len(new) : new[i].outcome = Raised)
        => /\ pc' = pc
           /\ ~raised'
           /\ [i \in 1..Len(new) |-> new[i].id] = CallIds(pc, turn_count, loop_turn + 1, batch)
           /\ \A i \in 1..Len(new) :
                 new[i].outcome = Raised
                 => /\ ResultsUnder(h, new[i].id) = {ErrorWithDetails}
                    /\ \E j \in (Len(chunks) + 1)..Len(chunks') :
                          chunks'[j] = ToolResultChunk(new[i].id)

\* The step after a response one of whose tool calls raised.
C21_AfterRaise == pc \in {"anthropic", "openai"} /\ last_response = "tools" /\ RaisedInTurn(loop_turn)

\* C21 (as stated): a tool execution that raises inside the turn loop never
\* aborts the loop: the exception becomes a structured error result appended
\* under the failing call's id, a tool_result chunk is yielded, the remaining
\* calls of the response are executed in order, and the next provider call is
\* made.
C21_RaiseNeverAborts ==
    [][ /\ C21_Contained
        /\ (C21_AfterRaise => ProviderCalls' = ProviderCalls + 1) ]_vars

\* C21 (amended): the same, the next provider call being made unless the
\* response whose call raised was the last one the turn budget allows.
C21_RaiseNeverAbortsAmended ==
    [][ /\ C21_Contained
        /\ (C21_AfterRaise /\ loop_turn < max_turns
               => ProviderCalls' = ProviderCalls + 1) ]_vars

\* The first of several calls of a response raised, the later ones were
\* executed, and the provider was called again.
C21_Witness ==
    \E i \in 1..Len(executions) :
        /\ executions[i].outcome = Raised
        /\ executions[i].id[4] = 1
        /\ \E k \in 1..Len(executions) :
              /\ executions[k].id[3] = executions[i].id[3]
              /\ executions[k].id[4] = 2
        /\ ProviderCalls > executions[i].id[3]
        /\ ~raised

\* C22: a non-empty openai_messages holds exactly one system entry, at index
\* 0, through every trim, and it is the prompt generated for the message being
\* processed (the latest message), not one kept from an earlier message.
C22_OneFreshSystemEntry ==
    openai_messages # << >>
    => /\ openai_messages[1] = SystemMsg(turn_count)
       /\ \A i \in 2..Len(openai_messages) : openai_messages[i].role # "system"

\* The second message of a conversation that was on the OpenAI path from its
\* start has ended with a trim that dropped both user texts.
C22_Witness ==
    /\ Ended
    /\ turn_count = 2
    /\ start_provider = "openai"
    /\ Len(openai_messages) = HistoryWindow + 1
    /\ openai_messages[1] = SystemMsg(2)
    /\ Occurrences(openai_messages, UserText(1)) = 0
    /\ Occurrences(openai_messages, UserText(2)) = 0

\* The agent as reset_conversation leaves it, with the user e applied.
C23_ResetFor(e) ==
    /\ conversation_history' = << >>
    /\ openai_messages' = << >>
    /\ current_order_id' = Null
    /\ turn_count' = 0
    /\ tools_used' = << >>
    /\ user_email' = e

\* C23 (as stated): a call of set_session_user with an email that differs
\* from the session's current user leaves the agent reset (both histories
\* and tools_used empty, no current order, turn_count 0) with the new user
\* applied.
C23_ResetOnUserChange ==
    [][ manager'.session_users # manager.session_users
            => C23_ResetFor(manager'.session_users) ]_vars

\* C23 (amended): the same for a session that has a current user.
C23_ResetOnUserChangeAmended ==
    [][ ( /\ manager'.session_users # manager.session_users
          /\ manager.session_users # Null )
            => C23_ResetFor(manager'.session_users) ]_vars

\* A conversation with a tool call and a named order took place, and the
\* session now has another user and an agent without any trace of it.
C23_Witness ==
    /\ pc = "done"
    /\ CountType(chunks, "tool_result") > 0
    /\ manager.session_users = "b@example.com"
    /\ user_email = "b@example.com"
    /\ conversation_history = << >>
    /\ current_order_id = Null
    /\ tools_used = << >>
    /\ sessions = << >>
    /\ turn_count = 0

\* Outcomes of initiate_return that are an error payload.
ReturnErrors == {"missing_arguments", "order_not_found", "email_mismatch",
                 "already_requested", "not_delivered", "window_expired"}

\* The row o after a return for the reason r.
ReturnedRow(o, r) ==
    [o EXCEPT !.status = "returned", !.return_requested = TRUE, !.return_reason = r,
              !.return_approved = TRUE, !.refund_processed = TRUE,
              !.refund_amount = o.total_amount]

\* The conditions of C24 other than the return window, for the call with the
\* arguments a on the row o.
C24_Asked(a, o) ==
    /\ ~Falsy(a.order_id) /\ ~Falsy(a.reason) /\ ~Falsy(a.email)
    /\ a.order_id = OrderNumber
    /\ Lower(a.email) = Lower(OwnerEmail)
    /\ ~o.return_requested
    /\ o.status = "delivered"

C25_ProviderUsed ==
    (Ended /\ (anthropic_client \/ openai_client))
    => /\ ProviderCalls >= 1
       /\ \A i \in 1..Len(chunks) :
             ~(chunks[i].type = "error" /\ chunks[i].content = "no_provider")

\* C26 (as stated): two sessions that received messages with the same texts,
\* whatever emails the earlier ones carried, hand the same arguments to the
\* tool call made for the message without an email.
C26_AnonymousNotFilled ==
    \A s1, s2 \in DOMAIN sessions :
        ( /\ sessions[s1].stage = "enriched"
          /\ sessions[s2].stage = "enriched"
          /\ sessions[s1].texts = sessions[s2].texts )
        => sessions[s1].tool_input = sessions[s2].tool_input

\* C26 (amended): the email argument of that tool call depends on the earlier
\* messages only through the email set last for the session:
\* two sessions that agree on it get the same email argument, a session
\* without such an email gets the model's own argument, and a
\* call of a tool that takes an email for which the model gave none gets the
\* email the session knows.
C26_FilledFromKnownEmail ==
    /\ \A s1, s2 \in DOMAIN sessions :
        ( /\ sessions[s1].stage = "enriched"
          /\ sessions[s2].stage = "enriched"
          /\ sessions[s1].supplied = sessions[s2].supplied )
        => sessions[s1].tool_input["email"] = sessions[s2].tool_input["email"]
    /\ \A s \in DOMAIN sessions :
        (sessions[s].stage = "enriched" /\ sessions[s].supplied = Null)
        => sessions[s].tool_input["email"] = tool_call.raw.args["email"]
    /\ \A s \in DOMAIN sessions :
        ( /\ sessions[s].stage = "enriched"
          /\ sessions[s].supplied # Null
          /\ tool_call.name \in tools_that_need_email \cup {"get_order_status"}
          /\ Falsy(tool_call.raw.args["email"]) )
        => sessions[s].tool_input["email"] = sessions[s].supplied

\* Both sessions have handled the message without email; one had two earlier
\* messages with different emails, the other one with the second of these
\* emails and one without, and both calls carry that email.
C26_Witness ==
    /\ sessions # << >>
    /\ sessions[1].stage = "enriched" /\ sessions[2].stage = "enriched"
    /\ Len(sessions[1].texts) = 2 /\ Len(sessions[2].texts) = 2
    /\ sessions[1].supplied = "b@example.com"
    /\ sessions[2].supplied = "b@example.com"
    /\ sessions[1].session_user = "b@example.com"
    /\ sessions[1].current_order_id # sessions[2].current_order_id
    /\ sessions[1].tool_input["email"] = "b@example.com"
    /\ sessions[2].tool_input["email"] = "b@example.com"

\* C27: when an invocation has ended with an error chunk, neither history
\* holds the user message of that invocation (as it must be if both histories
\* are what they were before the invocation).
C27_FailedMessageNotKept ==
    (Ended /\ ErrorChunks > 0 /\ turn_count > 0)
    => /\ Occurrences(conversation_history, UserText(turn_count)) = 0
       /\ Occurrences(openai_messages, UserText(turn_count)) = 0

\* C28: while a connection of the session id is open (its handler has not
\* left its loop), the session id has an entry in active_connections and in
\* agents, and a step of another connection of the same session id neither
\* replaces the agent nor removes the entries.
C28_RegisteredWhileOpen ==
    \A c \in DOMAIN handlers :
        handlers[c].pc # "closed"
        => /\ manager.active_connections # 0
           /\ manager.agents # 0

\* A chunk with the provider's name taken out of the id of its call.
C29_Erase(c) == [c EXCEPT !.id = << "", c.id[2], c.id[3], c.id[4] >>]

\* The chunks the loop of provider p yields for the model outputs of the
\* current invocation: its responses with tool calls so far, then its text.
C29_ChunksOn(p) ==
    LET turns == Len(executions) \div batch
        tools(t) == IF p = "anthropic"
                    THEN AnthropicToolChunks(CallIds("", turn_count, t, batch))
                    ELSE OpenAIToolChunks(CallIds("", turn_count, t, batch))
    IN  Flatten([t \in 1..turns |-> tools(t)])
        \o (IF last_response = "text"
            THEN << ContentChunk("", turn_count, loop_turn) >> ELSE << >>)

\* C29: both provider paths yield the same chunks for the same model
\* outputs: the chunks of an invocation are, but for the provider's name in
\* the ids, those either loop yields for its outputs, and every tool_result
\* chunk is preceded by exactly one tool_use chunk of its call.
C29_PathsEquivalent ==
    /\ [i \in 1..Len(chunks) |-> C29_Erase(chunks[i])] = C29_ChunksOn("anthropic")
    /\ [i \in 1..Len(chunks) |-> C29_Erase(chunks[i])] = C29_ChunksOn("openai")
    /\ \A j \in 1..Len(chunks) :
          chunks[j].type = "tool_result"
          => /\ Cardinality({i \in 1..Len(chunks) : chunks[i] = ToolUseChunk(chunks[j].id)}) = 1
             /\ \E i \in 1..(j - 1) : chunks[i] = ToolUseChunk(chunks[j].id)

\* C30: of two initiate_return calls for the same order whose steps
\* interleave, at most one reports success, and the refund is applied (a
\* commit writes the returned and refunded row) at most once.
C30_OneReturnWins ==
    /\ Cardinality({s \in DOMAIN sessions : sessions[s].outcome = "success"}) <= 1
    /\ Occurrences(return_log, "success") <= 1

====
